---- MODULE Spec2Model ----
(***************************************************************************)
(* The message-turn pipeline of the Mintlify Slack assistant               *)
(* (ref/mintlify-slack-assistant): the Event Router of index.ts, the Turn  *)
(* Orchestrator SlackMessageHandler.handleMessage of handlers/slack.ts,    *)
(* the KV Session Store, the processing reaction and the remote assistant. *)
(* Every await of handleMessage is one step of a turn, so turns of         *)
(* different inbound events interleave at the awaits.                      *)
(***************************************************************************)
EXTENDS Integers, Sequences, FiniteSets, TLC

VARIABLES
    turns,      \* one record per inbound event: the position and locals of its handler
    delivered,  \* the (event type, message ts) pairs the platform has delivered
    KV,         \* the Cloudflare KV namespace: key -> topic id, 0 when absent
    reactions,  \* the (channel, ts) pairs carrying the "eyes" reaction
    topics,     \* the topics (sessions) the remote assistant has created
    served,     \* the keys for which a turn has stored a session and sent its answer
    rendered,   \* a markdown text and what markdownToSlack makes of it
    fetched     \* the mention whose thread history is being gathered, and the thread

vars == <<turns, delivered, KV, reactions, topics, served, rendered, fetched>>

----------------------------------------------------------------------------
(* Bounds *)

MaxTurns == 2       \* inbound events handled

Turns == 1..MaxTurns
Ts == 1..MaxTurns
Channels == {"C1"}
Statuses == {500}   \* non-2xx statuses of the remote assistant

----------------------------------------------------------------------------
(* Text: a message text is a sequence of tokens *)

MentionTok == "<@U1>"
DebugTok == "[DEBUG]"
HistoryTok == "Previous conversation in this thread:"
CurrentTok == "Current message:"
NL == "\n"

Includes(text, tok) == \E i \in 1..Len(text) : text[i] = tok

\* the tokens of a text written out with a blank between them
RECURSIVE Join(_)
Join(text) ==
    IF text = <<>> THEN ""
    ELSE IF Len(text) = 1 THEN text[1]
    ELSE LET half == Len(text) \div 2
         IN  Join(SubSeq(text, 1, half)) \o " " \o Join(SubSeq(text, half + 1, Len(text)))

\* text without any occurrence of tok
RemoveAll(text, tok) == SelectSeq(text, LAMBDA x : x # tok)

\* text without the first occurrence of tok
RemoveFirst(text, tok) ==
    LET at == {i \in 1..Len(text) : text[i] = tok}
    IN  IF at = {} THEN text
        ELSE LET first == CHOOSE i \in at : \A j \in at : i <= j
             IN  SubSeq(text, 1, first - 1) \o SubSeq(text, first + 1, Len(text))

\* cleanMessage: the /<@[A-Z0-9]+>/g replace removes every mention token, the
\* string replace("[DEBUG]", "") removes the first occurrence only.
cleanMessage(text) == RemoveFirst(RemoveAll(text, MentionTok), DebugTok)

----------------------------------------------------------------------------
(* Keys *)

\* faulty variant: the thread id taken from the message's own ts
ThreadIdOwnTs(thread_ts, ts) == ts

\* thread_ts || ts, with 0 for an undefined thread_ts
ThreadId(thread_ts, ts) == IF thread_ts # 0 THEN thread_ts ELSE ts

HandlerKey(channel, threadId) == "thread:" \o channel \o ":" \o ToString(threadId)

RouterKey(channel, thread_ts) == "mintlify-thread:" \o channel \o ":" \o ToString(thread_ts)

DebugKey(channel, threadId) == "mintlify-thread:" \o channel \o ":" \o ToString(threadId)

KVKeys ==
    {HandlerKey(c, n) : c \in Channels, n \in Ts} \cup {RouterKey(c, n) : c \in Channels, n \in Ts}

----------------------------------------------------------------------------
(* The turn record: MessageContext plus the locals of handleMessage *)

NoTurn ==
    [ pc |-> "idle",        \* position of the handler
      kind |-> "none",      \* "app_mention" or "message"
      subtype |-> "none",   \* payload.subtype
      bot_id |-> FALSE,     \* payload.bot_id is set: the author is a bot
      text |-> <<>>, channel |-> "", thread_ts |-> 0, ts |-> 0,
      topicId |-> 0,        \* let topicId
      status |-> 0,         \* status of the remote error being reported
      error |-> "",         \* message of the exception caught
      sources |-> 0,        \* messageResult.sources.length
      trace |-> <<>>,       \* the external calls made, in order, with their outcome
      posts |-> <<>>,       \* the sendMessage calls: topic, message, KV value at the call
      replies |-> <<>>,     \* the replies say() delivered
      sessionAtStart |-> 0, \* "message": KV value under the handler key when it arrived
      afterSuccess |-> FALSE, \* "message": a turn had stored a session for the thread and
                              \* sent its answer by then
      overlapped |-> FALSE ] \* another turn of the same key was in flight meanwhile

\* the handler of the event is running
Active(r) == r.pc \notin {"idle", "skipped", "done", "rejected", "gone"}

\* handleMessage has returned ("done") or thrown ("rejected")
Finished(r) == r.pc \in {"done", "rejected"}

\* the handler of the event is over
Over(r) == r.pc \in {"skipped", "done", "rejected"}

KeyOf(r) == HandlerKey(r.channel, ThreadId(r.thread_ts, r.ts))

Call(op, res, val) == [op |-> op, res |-> res, val |-> val]

Did(r, op, res) == \E i \in 1..Len(r.trace) : r.trace[i].op = op /\ r.trace[i].res = res

Count(r, op) == Cardinality({i \in 1..Len(r.trace) : r.trace[i].op = op})

\* the turn ended by sending the assistant's answer
Answered(r) == \E i \in 1..Len(r.replies) : r.replies[i].kind = "answer"

----------------------------------------------------------------------------
(* Event Router: index.ts *)

\* conversations.replies for the thread of a mention: the call throws, or returns
\* the current message alone, or the thread with an earlier bot reply
OnlyCurrent(payload) ==
    [threw |-> FALSE,
     messages |-> <<[ts |-> payload.ts, bot_id |-> FALSE, text |-> payload.text]>>]

ThreadResults(payload) ==
    LET cur == [ts |-> payload.ts, bot_id |-> FALSE, text |-> payload.text]
        root == [ts |-> payload.thread_ts, bot_id |-> FALSE, text |-> <<"hi">>]
        bot == [ts |-> MaxTurns + 1, bot_id |-> TRUE, text |-> <<"answer">>]
    IN  IF payload.thread_ts = 0
        THEN {[threw |-> FALSE, messages |-> <<>>]}
        ELSE { [threw |-> TRUE, messages |-> <<>>],
               OnlyCurrent(payload),
               [threw |-> FALSE,
                messages |-> IF payload.thread_ts = payload.ts
                             THEN <<cur, bot>> ELSE <<root, bot, cur>>] }

\* .filter((msg) => msg.ts !== payload.ts).map((msg) => `${sender}: ${msg.text}`).join("\n")
RECURSIVE HistoryLines(_, _)
HistoryLines(messages, ts) ==
    IF messages = <<>> THEN <<>>
    ELSE IF Len(messages) = 1
    THEN LET msg == messages[1]
             sender == IF msg.bot_id THEN "Assistant:" ELSE "User:"
         IN  IF msg.ts # ts THEN <<sender>> \o msg.text ELSE <<>>
    ELSE LET half == Len(messages) \div 2
         IN  HistoryLines(SubSeq(messages, 1, half), ts)
                 \o HistoryLines(SubSeq(messages, half + 1, Len(messages)), ts)

fetchThreadHistory(payload, res) ==
    IF payload.thread_ts # 0 /\ ~res.threw /\ Len(res.messages) > 1
    THEN <<HistoryTok>> \o HistoryLines(res.messages, payload.ts)
             \o <<CurrentTok>> \o payload.text
    ELSE payload.text

\* faulty variant: admission by the bot having answered in the thread before
AdmittedInServedThread(payload) ==
    /\ payload.text # <<>>
    /\ payload.thread_ts # 0
    /\ payload.subtype # "bot_message"
    /\ HandlerKey(payload.channel, payload.thread_ts) \in served

\* faulty variant: admission of any author's message in a thread
AdmittedAnyAuthor(payload) ==
    /\ payload.text # <<>>
    /\ payload.thread_ts # 0

\* faulty variant: admission of any message with text that no bot_message subtype marks
AdmittedAnyThread(payload) ==
    /\ payload.text # <<>>
    /\ payload.subtype # "bot_message"

\* faulty variant: the admission check without the store lookup
AdmittedWithoutLookup(payload) ==
    /\ payload.text # <<>>
    /\ payload.thread_ts # 0
    /\ payload.subtype # "bot_message"

\* the admission check of the "message" handler
Admitted(payload) ==
    /\ payload.text # <<>>
    /\ payload.thread_ts # 0
    /\ payload.subtype # "bot_message"
    /\ KV[RouterKey(payload.channel, payload.thread_ts)] # 0

\* the record of a handler invocation for an inbound event
Arrived(kind, payload, text) ==
    LET key == HandlerKey(payload.channel, ThreadId(payload.thread_ts, payload.ts))
    IN  [NoTurn EXCEPT
            !.kind = kind, !.subtype = payload.subtype, !.bot_id = payload.bot_id,
            !.text = text,
            !.channel = payload.channel, !.thread_ts = payload.thread_ts, !.ts = payload.ts,
            !.sessionAtStart = IF kind = "message" THEN KV[key] ELSE 0,
            !.afterSuccess = kind = "message" /\ key \in served]

\* handleMessage up to its first await: the reactions.add call is in flight
Dispatch(t, r) ==
    LET busy == {u \in Turns : Active(turns[u]) /\ KeyOf(turns[u]) = KeyOf(r)}
    IN  turns' = [u \in Turns |->
                    IF u = t THEN [r EXCEPT !.pc = "add", !.overlapped = busy # {}]
                    ELSE IF u \in busy THEN [turns[u] EXCEPT !.overlapped = TRUE]
                    ELSE turns[u]]

\* timestamps are handed out in order of first delivery
KnownTs == {d[2] : d \in delivered}

\* a returned handler is dropped before anything else happens
Settled == \A t \in Turns : ~Over(turns[t])

\* the record of the next inbound event
Free == {t \in Turns : turns[t].pc = "idle"}

Slot == CHOOSE t \in Free : \A u \in Free : t <= u

\* at most `limit` handlers run at once
Deliverable(kind, ts, limit) ==
    /\ Settled
    /\ Free # {}
    /\ Cardinality({t \in Turns : Active(turns[t])}) < limit
    /\ <<kind, ts>> \notin delivered
    /\ ts <= Cardinality(KnownTs) + 1

AppMention(payload, res, limit) ==
    /\ Deliverable("app_mention", payload.ts, limit)
    /\ Dispatch(Slot, Arrived("app_mention", payload, fetchThreadHistory(payload, res)))
    /\ delivered' = delivered \cup {<<"app_mention", payload.ts>>}
    /\ UNCHANGED <<KV, reactions, topics, served, rendered, fetched>>

MessageEvent(payload, limit) ==
    /\ Deliverable("message", payload.ts, limit)
    /\ LET r == Arrived("message", payload, payload.text)
       IN  IF Admitted(payload)
           THEN Dispatch(Slot, r)
           ELSE turns' = [turns EXCEPT ![Slot] = [r EXCEPT !.pc = "skipped"]]
    /\ delivered' = delivered \cup {<<"message", payload.ts>>}
    /\ UNCHANGED <<KV, reactions, topics, served, rendered, fetched>>

----------------------------------------------------------------------------
(* Turn Orchestrator: SlackMessageHandler.handleMessage, one action per await *)

Reaction(r) == <<r.channel, r.ts>>

Set(t, r) == turns' = [turns EXCEPT ![t] = r]

\* the call returned: record it and move on
Step(r, pc, call) == [r EXCEPT !.pc = pc, !.trace = Append(@, call)]

\* the call threw inside the try block: control goes to the catch clause
Thrown(r, op) ==
    [r EXCEPT !.pc = "catchRemove", !.error = op \o " failed",
              !.trace = Append(@, Call(op, "throw", 0))]

\* the turn is at the await named pc
At(t, pc) == Settled /\ turns[t].pc = pc

\* `faulty`: the external calls of the turn may throw
Throws(t, op, faulty) == faulty /\ Set(t, Thrown(turns[t], op))

\* await slackContext.client.reactions.add(...)
ReactionsAdd(t, faulty) ==
    /\ At(t, "add")
    /\ \/ /\ reactions' = reactions \cup {Reaction(turns[t])}
          /\ Set(t, Step(turns[t], "get", Call("reactions.add", "ok", 0)))
       \/ /\ Throws(t, "reactions.add", faulty)
          /\ UNCHANGED reactions
    /\ UNCHANGED <<delivered, KV, topics, served, rendered, fetched>>

\* faulty variant: the stored topic is read but a new one is created all the same
KVGetThenCreate(t, faulty) ==
    /\ At(t, "get")
    /\ Set(t, Step(turns[t], "create", Call("KV.get", "ok", KV[KeyOf(turns[t])])))
    /\ UNCHANGED <<delivered, KV, reactions, topics, served, rendered, fetched>>

\* faulty variant: a session found in the store is written back, renewing its expiry
KVGetThenPut(t, faulty) ==
    /\ At(t, "get")
    /\ LET topicId == KV[KeyOf(turns[t])]
           r == Step(turns[t], IF topicId = 0 THEN "create" ELSE "put",
                     Call("KV.get", "ok", topicId))
       IN  Set(t, [r EXCEPT !.topicId = topicId])
    /\ UNCHANGED <<delivered, KV, reactions, topics, served, rendered, fetched>>

\* let topicId = await this.env.KV.get(kvKey); if (!topicId) ...
KVGet(t, faulty) ==
    /\ At(t, "get")
    /\ \/ LET topicId == KV[KeyOf(turns[t])]
              r == Step(turns[t], IF topicId = 0 THEN "create" ELSE "send",
                        Call("KV.get", "ok", topicId))
          IN  Set(t, [r EXCEPT !.topicId = topicId])
       \/ Throws(t, "KV.get", faulty)
    /\ UNCHANGED <<delivered, KV, reactions, topics, served, rendered, fetched>>

\* const topicResult = await this.mintlify.createTopic(); if ("error" in topicResult) ...
CreateTopic(t, faulty) ==
    /\ At(t, "create")
    /\ \/ LET id == Cardinality(topics) + 1
              r == Step(turns[t], "put", Call("createTopic", "ok", id))
          IN  /\ topics' = topics \cup {id}
              /\ Set(t, [r EXCEPT !.topicId = id])
       \/ \E status \in Statuses :
              LET r == Step(turns[t], "createErrRemove", Call("createTopic", "error", status))
              IN  /\ Set(t, [r EXCEPT !.status = status])
                  /\ UNCHANGED topics
       \/ /\ Throws(t, "createTopic", faulty)
          /\ UNCHANGED topics
    /\ UNCHANGED <<delivered, KV, reactions, served, rendered, fetched>>

\* await slackContext.client.reactions.remove(...) inside the try block
RemoveThen(t, at, next, faulty) ==
    /\ At(t, at)
    /\ \/ /\ reactions' = reactions \ {Reaction(turns[t])}
          /\ Set(t, Step(turns[t], next, Call("reactions.remove", "ok", 0)))
          /\ served' = IF Answered(turns[t]) /\ Did(turns[t], "KV.put", "ok")
                       THEN served \cup {KeyOf(turns[t])} ELSE served
       \/ /\ Throws(t, "reactions.remove", faulty)
          /\ UNCHANGED <<reactions, served>>
    /\ UNCHANGED <<delivered, KV, topics, rendered, fetched>>

\* await slackContext.say(...) inside the try block
SayThen(t, at, next, reply, faulty) ==
    /\ At(t, at)
    /\ \/ LET r == Step(turns[t], next, Call("say", "ok", 0))
          IN  Set(t, [r EXCEPT !.replies = Append(@, reply)])
       \/ Throws(t, "say", faulty)
    /\ UNCHANGED <<delivered, KV, reactions, topics, served, rendered, fetched>>

CreateErrorReply(r) ==
    [kind |-> "createError", thread_ts |-> ThreadId(r.thread_ts, r.ts), status |-> r.status,
     text |-> <<"Failed to create conversation (" \o ToString(r.status) \o "): body">>]

\* faulty variant: the createTopic error path without the reaction removal
CreateErrorRemoveSkipped(t, faulty) ==
    /\ At(t, "createErrRemove")
    /\ Set(t, [turns[t] EXCEPT !.pc = "createErrSay"])
    /\ UNCHANGED <<delivered, KV, reactions, topics, served, rendered, fetched>>

CreateErrorRemove(t, faulty) == RemoveThen(t, "createErrRemove", "createErrSay", faulty)

\* faulty variant: the createTopic error path without its return
CreateErrorSayNoReturn(t, faulty) ==
    SayThen(t, "createErrSay", "put", CreateErrorReply(turns[t]), faulty)

CreateErrorSay(t, faulty) == SayThen(t, "createErrSay", "done", CreateErrorReply(turns[t]), faulty)

\* faulty variant: a put that keeps the value already stored
KVPutIfAbsent(t, faulty) ==
    /\ At(t, "put")
    /\ KV' = [KV EXCEPT ![KeyOf(turns[t])] = IF @ = 0 THEN turns[t].topicId ELSE @]
    /\ Set(t, Step(turns[t], "send", Call("KV.put", "ok", turns[t].topicId)))
    /\ UNCHANGED <<delivered, reactions, topics, served, rendered, fetched>>

\* faulty variant: the session is stored under the key the Event Router reads
KVPutRouterKey(t, faulty) ==
    /\ At(t, "put")
    /\ KV' = [KV EXCEPT ![RouterKey(turns[t].channel, ThreadId(turns[t].thread_ts, turns[t].ts))]
                            = turns[t].topicId]
    /\ Set(t, Step(turns[t], "send", Call("KV.put", "ok", turns[t].topicId)))
    /\ UNCHANGED <<delivered, reactions, topics, served, rendered, fetched>>

\* await this.env.KV.put(kvKey, topicId, { expirationTtl: 86400 * 7 })
KVPut(t, faulty) ==
    /\ At(t, "put")
    /\ \/ /\ KV' = [KV EXCEPT ![KeyOf(turns[t])] = turns[t].topicId]
          /\ Set(t, Step(turns[t], "send", Call("KV.put", "ok", turns[t].topicId)))
       \/ /\ Throws(t, "KV.put", faulty)
          /\ UNCHANGED KV
    /\ UNCHANGED <<delivered, reactions, topics, served, rendered, fetched>>

\* const messageResult = await this.mintlify.sendMessage(topicId, cleanedMessage)
SendMessage(t, counts, faulty) ==
    /\ At(t, "send")
    /\ LET post == [topicId |-> turns[t].topicId, message |-> cleanMessage(turns[t].text),
                    stored |-> KV[KeyOf(turns[t])]]
           sent == [turns[t] EXCEPT !.posts = Append(@, post)]
       IN  \/ \E n \in counts :
                  LET r == Step(sent, "say", Call("sendMessage", "ok", turns[t].topicId))
                  IN  Set(t, [r EXCEPT !.sources = n])
           \/ \E status \in Statuses :
                  LET r == Step(sent, "sendErrRemove",
                                Call("sendMessage", "error", turns[t].topicId))
                  IN  Set(t, [r EXCEPT !.status = status])
           \/ faulty /\ Set(t, Thrown(sent, "sendMessage"))
    /\ UNCHANGED <<delivered, KV, reactions, topics, served, rendered, fetched>>

SendErrorReply(r) ==
    [kind |-> "sendError", thread_ts |-> ThreadId(r.thread_ts, r.ts), status |-> r.status,
     text |-> <<"Failed to process message (" \o ToString(r.status) \o "): body">>]

\* faulty variant: the sendMessage error path deletes the session of the thread
SendErrorRemoveForgetting(t, faulty) ==
    /\ At(t, "sendErrRemove")
    /\ reactions' = reactions \ {Reaction(turns[t])}
    /\ KV' = [KV EXCEPT ![KeyOf(turns[t])] = 0]
    /\ Set(t, Step(turns[t], "sendErrSay", Call("reactions.remove", "ok", 0)))
    /\ UNCHANGED <<delivered, topics, served, rendered, fetched>>

\* faulty variant: a sendMessage that returned an error is issued a second time
SendErrorRemoveThenRetry(t, faulty) ==
    RemoveThen(t, "sendErrRemove",
               IF Count(turns[t], "sendMessage") < 2 THEN "send" ELSE "sendErrSay", faulty)

SendErrorRemove(t, faulty) == RemoveThen(t, "sendErrRemove", "sendErrSay", faulty)

\* faulty variant: the sendMessage error path with the reaction removed once more after
\* the error reply
SendErrorSayThenRemove(t, faulty) ==
    SayThen(t, "sendErrSay", "remove", SendErrorReply(turns[t]), faulty)

SendErrorSay(t, faulty) == SayThen(t, "sendErrSay", "done", SendErrorReply(turns[t]), faulty)

\* buildDebugInfo, then the lines handleMessage pushes on the way to the answer
buildDebugInfo(r) ==
    LET threadId == ThreadId(r.thread_ts, r.ts)
    IN  << "*DEBUG MODE ENABLED*",
           "Channel: " \o r.channel,
           "Thread TS: " \o (IF r.thread_ts # 0 THEN ToString(r.thread_ts)
                             ELSE "None (new thread)"),
           "Message TS: " \o ToString(r.ts),
           "Thread ID: " \o ToString(threadId),
           "KV Key: " \o DebugKey(r.channel, threadId) >>
        \o (IF Includes(r.text, HistoryTok) THEN <<"Thread history included: Yes">> ELSE <<>>)

DebugInfo(r) ==
    LET created == Did(r, "createTopic", "ok")
    IN  buildDebugInfo(r)
        \o << "Existing Topic ID: " \o (IF created THEN "None (will create new)"
                                        ELSE ToString(r.topicId)) >>
        \o (IF created
            THEN << "Creating new topic...", "Created Topic ID: " \o ToString(r.topicId),
                    "Stored in KV with 7-day TTL" >>
            ELSE <<>>)
        \o << "Original message: " \o Join(r.text),
              "Cleaned message: " \o Join(cleanMessage(r.text)),
              "Sending to topic: " \o ToString(r.topicId) >>
        \o (IF r.sources > 0 THEN <<"Found " \o ToString(r.sources) \o " sources">> ELSE <<>>)
        \o <<"*Response sent successfully*">>

\* faulty variant: the success reply without the diagnostics
AnswerReplyPlain(r) ==
    [kind |-> "answer", thread_ts |-> ThreadId(r.thread_ts, r.ts), status |-> 0,
     text |-> <<"markdownToSlack(answer)">>
                  \o (IF r.sources > 0 THEN <<NL, NL, "formatSources(sources)">> ELSE <<>>)]

\* faulty variant: the success reply with the diagnostics behind the answer
AnswerReplyDiagnosticsLast(r) ==
    LET answer == <<"markdownToSlack(answer)">>
                      \o (IF r.sources > 0 THEN <<NL, NL, "formatSources(sources)">>
                          ELSE <<>>)
    IN  [kind |-> "answer", thread_ts |-> ThreadId(r.thread_ts, r.ts), status |-> 0,
         text |-> IF Includes(r.text, DebugTok) THEN answer \o <<"---">> \o DebugInfo(r)
                  ELSE answer]

\* the success reply: transformed answer, two newlines and the citations, and in
\* front of them the diagnostics, joined to the answer by "\n\n---\n\n" ("---" here)
AnswerReply(r) ==
    LET answer == <<"markdownToSlack(answer)">>
                      \o (IF r.sources > 0 THEN <<NL, NL, "formatSources(sources)">>
                          ELSE <<>>)
    IN  [kind |-> "answer", thread_ts |-> ThreadId(r.thread_ts, r.ts), status |-> 0,
         text |-> IF Includes(r.text, DebugTok) THEN DebugInfo(r) \o <<"---">> \o answer
                  ELSE answer]

SayAnswer(t, faulty) == SayThen(t, "say", "remove", AnswerReply(turns[t]), faulty)

RemoveReaction(t, faulty) == RemoveThen(t, "remove", "done", faulty)

\* catch (error): try { reactions.remove } catch (removeError) { log }
CatchRemove(t) ==
    /\ At(t, "catchRemove")
    /\ \/ /\ reactions' = reactions \ {Reaction(turns[t])}
          /\ Set(t, Step(turns[t], "catchSay", Call("reactions.remove", "ok", 0)))
       \/ /\ Set(t, Step(turns[t], "catchSay", Call("reactions.remove", "throw", 0)))
          /\ UNCHANGED reactions
    /\ UNCHANGED <<delivered, KV, topics, served, rendered, fetched>>

\* faulty variant: the error reply addressed with the event's raw thread_ts
ExceptionReplyUnthreaded(r) ==
    [kind |-> "exception", thread_ts |-> r.thread_ts, status |-> 0,
     text |-> <<"Error: " \o r.error>>]

ExceptionReply(r) ==
    [kind |-> "exception", thread_ts |-> ThreadId(r.thread_ts, r.ts), status |-> 0,
     text |-> <<"Error: " \o r.error>>]

\* faulty variant: a failed error reply is sent again and again
CatchSayRetried(t) ==
    /\ At(t, "catchSay")
    /\ Set(t, [turns[t] EXCEPT !.error = IF @ = "say failed" THEN "say failed again"
                                         ELSE "say failed"])
    /\ UNCHANGED <<delivered, KV, reactions, topics, served, rendered, fetched>>

\* catch (error): await slackContext.say({ text: `Error: ...` }); a throw here leaves handleMessage
CatchSay(t) ==
    /\ At(t, "catchSay")
    /\ \/ LET r == Step(turns[t], "done", Call("say", "ok", 0))
          IN  Set(t, [r EXCEPT !.replies = Append(@, ExceptionReply(turns[t]))])
       \/ Set(t, Step(turns[t], "rejected", Call("say", "throw", 0)))
    /\ UNCHANGED <<delivered, KV, reactions, topics, served, rendered, fetched>>

\* the 7-day expirationTtl of an entry runs out
Expire(key) ==
    /\ Settled
    /\ KV[key] # 0
    /\ KV' = [KV EXCEPT ![key] = 0]
    /\ UNCHANGED <<turns, delivered, reactions, topics, served, rendered, fetched>>

\* the handler of an event is over: its MessageContext is discarded
Forget(t) ==
    /\ Over(turns[t])
    /\ Set(t, [NoTurn EXCEPT !.pc = "gone"])
    /\ UNCHANGED <<delivered, KV, reactions, topics, served, rendered, fetched>>

----------------------------------------------------------------------------
(* Markup Transformer: utils/markdown.ts. A text is a sequence of characters. *)

Bullet == "(bullet)"   \* the character U+2022

Digits == {"0", "1", "2"}

\* the characters of \w that occur in the texts
WordChars == Digits \cup {"a", "b", "c", "h", "i", "j", "q", "s", "t", "u", "_"}

\* pat occurs in text at position i
StartsAt(text, i, pat) ==
    /\ i >= 1
    /\ i + Len(pat) - 1 <= Len(text)
    /\ SubSeq(text, i, i + Len(pat) - 1) = pat

\* the first position from i on whose character is in stops, Len(text) + 1 if none
RECURSIVE Find(_, _, _)
Find(text, i, stops) ==
    IF i > Len(text) \/ text[i] \in stops THEN i ELSE Find(text, i + 1, stops)

\* the first position from i on whose character is not in chars, Len(text) + 1 if none
RECURSIVE Skip(_, _, _)
Skip(text, i, chars) ==
    IF i > Len(text) \/ text[i] \notin chars THEN i ELSE Skip(text, i + 1, chars)

\* the first position from i on where pat occurs, 0 if none
RECURSIVE FindSeq(_, _, _)
FindSeq(text, i, pat) ==
    IF i + Len(pat) - 1 > Len(text) THEN 0
    ELSE IF StartsAt(text, i, pat) THEN i
    ELSE FindSeq(text, i + 1, pat)

\* .replace(/dd([^d]+)dd/g, "*$1*") with d the delimiter character
RECURSIVE BoldFrom(_, _, _)
BoldFrom(text, i, d) ==
    IF i > Len(text) THEN <<>>
    ELSE LET j == Find(text, i + 2, {d})
         IN  IF StartsAt(text, i, <<d, d>>) /\ j > i + 2 /\ StartsAt(text, j, <<d, d>>)
             THEN <<"*">> \o SubSeq(text, i + 2, j - 1) \o <<"*">> \o BoldFrom(text, j + 2, d)
             ELSE <<text[i]>> \o BoldFrom(text, i + 1, d)

Bold(text) == BoldFrom(BoldFrom(text, 1, "*"), 1, "_")

\* the lines of a text, and the text of its lines
RECURSIVE Lines(_)
Lines(text) ==
    LET j == Find(text, 1, {NL})
    IN  IF j > Len(text) THEN <<text>>
        ELSE <<SubSeq(text, 1, j - 1)>> \o Lines(SubSeq(text, j + 1, Len(text)))

RECURSIVE Unlines(_)
Unlines(lines) ==
    IF Len(lines) = 1 THEN lines[1]
    ELSE lines[1] \o <<NL>> \o Unlines(Tail(lines))

\* a replace with the flags gm and a pattern ^...(.+)$ rewrites each line by itself
EachLine(Op(_), text) ==
    LET lines == Lines(text)
    IN  Unlines([k \in 1..Len(lines) |-> Op(lines[k])])

\* .replace(/^prefix(.+)$/gm, "*$1*")
Header(line, prefix) ==
    IF StartsAt(line, 1, prefix) /\ Len(line) > Len(prefix)
    THEN <<"*">> \o SubSeq(line, Len(prefix) + 1, Len(line)) \o <<"*">>
    ELSE line

HeaderLine(line) ==
    Header(Header(Header(line, <<"#", "#", "#", " ">>), <<"#", "#", " ">>), <<"#", " ">>)

Headers(text) == EachLine(HeaderLine, text)

\* .replace(/^[\*\-] (.+)$/gm, "(bullet) $1")
MarkerItem(line) ==
    IF Len(line) > 2 /\ line[1] \in {"*", "-"} /\ line[2] = " "
    THEN <<Bullet, " ">> \o SubSeq(line, 3, Len(line))
    ELSE line

\* .replace(/^\d+\. (.+)$/gm, "(bullet) $1")
NumberItem(line) ==
    LET j == Skip(line, 1, Digits)
    IN  IF j > 1 /\ StartsAt(line, j, <<".", " ">>) /\ Len(line) > j + 1
        THEN <<Bullet, " ">> \o SubSeq(line, j + 2, Len(line))
        ELSE line

ListLine(line) == NumberItem(MarkerItem(line))

\* faulty variant: the list rules without the m flag rewrite the first line only
ListsFirstLine(text) ==
    LET lines == Lines(text)
    IN  Unlines([k \in 1..Len(lines) |-> IF k = 1 THEN ListLine(lines[k]) ELSE lines[k]])

Lists(text) == EachLine(ListLine, text)

\* .replace(/(?<!^)d([^d\n]+)d/g, "_$1_") with d the delimiter character: no m flag,
\* so only the first character of the whole text is exempt
RECURSIVE ItalicFrom(_, _, _)
ItalicFrom(text, i, d) ==
    IF i > Len(text) THEN <<>>
    ELSE LET j == Find(text, i + 1, {d, NL})
         IN  IF i > 1 /\ text[i] = d /\ j > i + 1 /\ j <= Len(text) /\ text[j] = d
             THEN <<"_">> \o SubSeq(text, i + 1, j - 1) \o <<"_">> \o ItalicFrom(text, j + 1, d)
             ELSE <<text[i]>> \o ItalicFrom(text, i + 1, d)

Italic(text) == ItalicFrom(ItalicFrom(text, 1, "*"), 1, "_")

\* pat occurs at j and no line ends between i and j: the first such j from i on, 0 if none
RECURSIVE FindOnLine(_, _, _)
FindOnLine(text, i, pat) ==
    IF i + Len(pat) - 1 > Len(text) THEN 0
    ELSE IF StartsAt(text, i, pat) THEN i
    ELSE IF text[i] = NL THEN 0
    ELSE FindOnLine(text, i + 1, pat)

\* .replace(/~~(.+?)~~/g, "~$1~")
RECURSIVE StrikeFrom(_, _)
StrikeFrom(text, i) ==
    IF i > Len(text) THEN <<>>
    ELSE LET j == IF i + 2 <= Len(text) /\ text[i + 2] # NL
                  THEN FindOnLine(text, i + 3, <<"~", "~">>) ELSE 0
         IN  IF StartsAt(text, i, <<"~", "~">>) /\ j # 0
             THEN <<"~">> \o SubSeq(text, i + 2, j - 1) \o <<"~">> \o StrikeFrom(text, j + 2)
             ELSE <<text[i]>> \o StrikeFrom(text, i + 1)

Strike(text) == StrikeFrom(text, 1)

Tick == "(tick)"       \* the character U+0060

Fence == <<Tick, Tick, Tick>>

\* match.replace(/```(\w+)?\n?/g, "```"): after each fence a word and a line end go
RECURSIVE StripFences(_, _)
StripFences(match, i) ==
    IF i > Len(match) THEN <<>>
    ELSE IF StartsAt(match, i, Fence)
    THEN LET w == Skip(match, i + 3, WordChars)
             n == IF w <= Len(match) /\ match[w] = NL THEN w + 1 ELSE w
         IN  Fence \o StripFences(match, n)
    ELSE <<match[i]>> \o StripFences(match, i + 1)

\* .replace(/```[\s\S]*?```/g, (match) => ...)
RECURSIVE CodeBlocksFrom(_, _)
CodeBlocksFrom(text, i) ==
    IF i > Len(text) THEN <<>>
    ELSE LET j == FindSeq(text, i + 3, Fence)
         IN  IF StartsAt(text, i, Fence) /\ j # 0
             THEN StripFences(SubSeq(text, i, j + 2), 1) \o CodeBlocksFrom(text, j + 3)
             ELSE <<text[i]>> \o CodeBlocksFrom(text, i + 1)

CodeBlocks(text) == CodeBlocksFrom(text, 1)

\* .replace(/`(.+?)`/g, "`$1`"): every match is replaced by itself
InlineCode(text) == text

\* .replace(/\[([^\]]+)\]\(([^)]+)\)/g, "<$2|$1>")
RECURSIVE LinksFrom(_, _)
LinksFrom(text, i) ==
    IF i > Len(text) THEN <<>>
    ELSE LET j == Find(text, i + 1, {"]"})
             k == Find(text, j + 2, {")"})
         IN  IF /\ text[i] = "[" /\ j > i + 1 /\ StartsAt(text, j, <<"]", "(">>)
                /\ k > j + 2 /\ k <= Len(text)
             THEN <<"<">> \o SubSeq(text, j + 2, k - 1) \o <<"|">> \o SubSeq(text, i + 1, j - 1)
                      \o <<">">> \o LinksFrom(text, k + 1)
             ELSE <<text[i]>> \o LinksFrom(text, i + 1)

Links(text) == LinksFrom(text, 1)

\* .replace(/^> (.+)$/gm, "> $1"): every match is replaced by itself
BlockQuotes(text) == text

\* .replace(/\n{3,}/g, "\n\n")
RECURSIVE NewlinesFrom(_, _)
NewlinesFrom(text, i) ==
    IF i > Len(text) THEN <<>>
    ELSE LET j == Skip(text, i, {NL})
         IN  IF j >= i + 3 THEN <<NL, NL>> \o NewlinesFrom(text, j)
             ELSE <<text[i]>> \o NewlinesFrom(text, i + 1)

\* faulty variant: the last rule left out, blank lines stay as they are
NewlinesKept(text) == text

Newlines(text) == NewlinesFrom(text, 1)

markdownToSlack(markdown) ==
    Newlines(BlockQuotes(Links(InlineCode(CodeBlocks(Strike(Italic(Lists(Headers(Bold(
        markdown))))))))))

\* the texts transformed: up to MaxPieces pieces, each a construct or plain text
MaxPieces == 3

Pieces ==
    [ bold |-> <<"*", "*", "b", "*", "*">>,
      under |-> <<"_", "_", "b", "_", "_">>,
      heading |-> <<"#", " ", "h">>,
      dash |-> <<"-", " ", "i">>,
      star |-> <<"*", " ", "i">>,
      number |-> <<"1", ".", " ", "i">>,
      strike |-> <<"~", "~", "s", "~", "~">>,
      emph |-> <<"*", "i", "*">>,
      fence |-> Fence \o <<"j", "s", NL, "c", NL>> \o Fence,
      shell |-> Fence \o <<"s", "h", NL, "#", " ", "c", NL>> \o Fence,
      link |-> <<"[", "t", "]", "(", "u", ")">>,
      quote |-> <<">", " ", "q">>,
      word |-> <<"a">>,
      space |-> <<" ">>,
      newline |-> <<NL>> ]

PieceSeqs == UNION {[1..n -> DOMAIN Pieces] : n \in 0..MaxPieces}

RECURSIVE Concat(_)
Concat(pieces) ==
    IF pieces = <<>> THEN <<>> ELSE Pieces[Head(pieces)] \o Concat(Tail(pieces))

NotRendered == [pieces |-> <<>>, markdown |-> <<>>, slack |-> <<>>, again |-> <<>>, passes |-> 0]

\* slackFormattedText = markdownToSlack(messageResult.text)
Transform ==
    /\ rendered.passes = 0
    /\ rendered' = [rendered EXCEPT !.slack = markdownToSlack(rendered.markdown), !.passes = 1]
    /\ UNCHANGED <<turns, delivered, KV, reactions, topics, served, fetched>>

\* the transformer applied to its own output
TransformAgain ==
    /\ rendered.passes = 1
    /\ rendered' = [rendered EXCEPT !.again = markdownToSlack(rendered.slack), !.passes = 2]
    /\ UNCHANGED <<turns, delivered, KV, reactions, topics, served, fetched>>

----------------------------------------------------------------------------
(* Thread history: the app_mention handler of index.ts and fetchThreadHistory *)

RepliesLimit == 100   \* conversations.replies({ ..., limit: 100 })

NoPayload ==
    [channel |-> "", ts |-> 0, thread_ts |-> 0, text |-> <<>>, subtype |-> "none",
     bot_id |-> FALSE]

NotFetched ==
    [ pc |-> "none",        \* "replies": the conversations.replies call is in flight
      payload |-> NoPayload,
      threw |-> FALSE,      \* the call threw
      thread |-> <<>>,      \* the messages of the thread on the platform, oldest first
      messageText |-> <<>> ]

\* n earlier messages of a thread, written in turn by the assistant and by a user
Earlier(n) ==
    [i \in 1..n |-> [ts |-> MaxTurns + 1 + i, bot_id |-> i % 2 = 1, text |-> <<"m">>]]

\* the threads a mention can stand in: alone under its own ts, answered, or after the
\* root and 0, 1 or more than RepliesLimit other messages
Threads(payload) ==
    LET cur == [ts |-> payload.ts, bot_id |-> FALSE, text |-> payload.text]
        root == [ts |-> payload.thread_ts, bot_id |-> FALSE, text |-> <<"hi">>]
    IN  IF payload.thread_ts = payload.ts
        THEN {<<cur>>, <<cur>> \o Earlier(1)}
        ELSE {<<root, cur>>, <<root>> \o Earlier(1) \o <<cur>>,
              <<root>> \o Earlier(RepliesLimit) \o <<cur>>}

\* how the conversations.replies call of a mention can end
Outcomes(payload) ==
    IF payload.thread_ts = 0
    THEN {[threw |-> FALSE, thread |-> <<>>]}
    ELSE {[threw |-> TRUE, thread |-> <<>>]}
             \cup {[threw |-> FALSE, thread |-> thread] : thread \in Threads(payload)}

\* what the call returns: the first `limit` messages of the thread
Replies(outcome) ==
    [threw |-> outcome.threw,
     messages |-> IF Len(outcome.thread) <= RepliesLimit THEN outcome.thread
                  ELSE SubSeq(outcome.thread, 1, RepliesLimit)]

\* slackApp.event("app_mention"): fetchThreadHistory has called conversations.replies
MentionEvent(payload) ==
    /\ fetched.pc \in {"none", "handled"}
    /\ Deliverable("app_mention", payload.ts, 1)
    /\ fetched' = [NotFetched EXCEPT !.pc = "replies", !.payload = payload]
    /\ UNCHANGED <<turns, delivered, KV, reactions, topics, served, rendered>>

\* the call is over: fetchThreadHistory returns messageText and handleMessage is called
RepliesReturn(outcome) ==
    /\ fetched.pc = "replies"
    /\ LET payload == fetched.payload
           messageText == fetchThreadHistory(payload, Replies(outcome))
       IN  /\ fetched' = [fetched EXCEPT !.pc = "handled", !.threw = outcome.threw,
                                         !.thread = outcome.thread,
                                         !.messageText = messageText]
           /\ Dispatch(Slot, Arrived("app_mention", payload, messageText))
           /\ delivered' = delivered \cup {<<"app_mention", payload.ts>>}
    /\ UNCHANGED <<KV, reactions, topics, served, rendered>>

----------------------------------------------------------------------------
(* Specification *)

Payloads(texts, subtypes, bots) ==
    [channel : Channels, ts : Ts, thread_ts : {0} \cup Ts, text : texts, subtype : subtypes,
     bot_id : bots]

Init ==
    /\ turns = [t \in Turns |-> NoTurn]
    /\ delivered = {}
    /\ KV = [k \in KVKeys |-> 0]
    /\ reactions = {}
    /\ topics = {}
    /\ served = {}
    /\ rendered = NotRendered
    /\ fetched = NotFetched

\* one step of the turn of event t
Turn(t, counts, faulty) ==
    \/ ReactionsAdd(t, faulty)
    \/ KVGet(t, faulty)
    \/ CreateTopic(t, faulty)
    \/ CreateErrorRemove(t, faulty)
    \/ CreateErrorSay(t, faulty)
    \/ KVPut(t, faulty)
    \/ SendMessage(t, counts, faulty)
    \/ SendErrorRemove(t, faulty)
    \/ SendErrorSay(t, faulty)
    \/ SayAnswer(t, faulty)
    \/ RemoveReaction(t, faulty)

Mentions == Payloads({<<MentionTok, "hi">>}, {"none"}, {FALSE})

Messages == Payloads({<<>>, <<"hi">>}, {"none", "bot_message"}, BOOLEAN)

\* Events are handled one at a time; every external call may throw. (Thread histories
\* and answers with sources are left to SpecDebug and SpecThread.)
Next ==
    \/ \E payload \in Mentions : AppMention(payload, OnlyCurrent(payload), 1)
    \/ \E payload \in Messages : MessageEvent(payload, 1)
    \/ \E t \in Turns : Turn(t, {0}, TRUE) \/ CatchRemove(t) \/ CatchSay(t) \/ Forget(t)
    \/ \E key \in KVKeys : Expire(key)

Spec == Init /\ [][Next]_vars

\* the events of the thread rooted at the first message
InThread(payloads) == {p \in payloads : ThreadId(p.thread_ts, p.ts) = 1}

\* Events of one thread are handled concurrently; the external calls return.
NextRace ==
    \/ \E payload \in InThread(Mentions) :
           AppMention(payload, OnlyCurrent(payload), MaxTurns)
    \/ \E payload \in InThread(Messages) : MessageEvent(payload, MaxTurns)
    \/ \E t \in Turns : Turn(t, {0}, FALSE) \/ Forget(t)
    \/ \E key \in KVKeys : Expire(key)

SpecRace == Init /\ [][NextRace]_vars

DebugMentions == Payloads({<<MentionTok, DebugTok, "hi">>}, {"none"}, {FALSE})

\* Mentions carrying the debug marker, handled one at a time; every call may throw.
NextDebug ==
    \/ \E payload \in DebugMentions : \E res \in ThreadResults(payload) :
           AppMention(payload, res, 1)
    \/ \E t \in Turns : Turn(t, {0, 1}, TRUE) \/ CatchRemove(t) \/ CatchSay(t) \/ Forget(t)
    \/ \E key \in KVKeys : Expire(key)

SpecDebug == Init /\ [][NextDebug]_vars

ThreadMentions ==
    Payloads({<<MentionTok, "hi">>, <<MentionTok, DebugTok, "hi">>,
              <<MentionTok, DebugTok, "hi", MentionTok, DebugTok>>}, {"none"}, {FALSE})

\* Mentions with their thread histories, handled one at a time; the external calls of
\* the turn return.
NextThread ==
    \/ \E payload \in ThreadMentions : MentionEvent(payload)
    \/ \E outcome \in Outcomes(fetched.payload) : RepliesReturn(outcome)
    \/ \E t \in Turns : Turn(t, {0, 1}, FALSE) \/ Forget(t)
    \/ \E key \in KVKeys : Expire(key)

SpecThread == Init /\ [][NextThread]_vars

\* the steps a running turn takes
TurnSteps == \E t \in Turns : Turn(t, {0, 1}, TRUE) \/ CatchRemove(t) \/ CatchSay(t)

\* Mentions of one thread handled one at a time; every external call may throw.
NextLive ==
    \/ \E payload \in InThread(Mentions) : AppMention(payload, OnlyCurrent(payload), 1)
    \/ TurnSteps
    \/ \E t \in Turns : Forget(t)
    \/ \E key \in KVKeys : Expire(key)

\* every external call of a running turn eventually returns or throws
SpecLive == Init /\ [][NextLive]_vars /\ WF_vars(TurnSteps)

\* The platform delivers an app_mention event and a message event for the same
\* message of the thread; the handlers run concurrently and the external calls return.
NextBoth ==
    \/ \E payload \in InThread(Mentions) :
           \/ AppMention(payload, OnlyCurrent(payload), MaxTurns)
           \/ MessageEvent(payload, MaxTurns)
    \/ \E t \in Turns : Turn(t, {0}, FALSE) \/ Forget(t)
    \/ \E key \in KVKeys : Expire(key)

SpecBoth == Init /\ [][NextBoth]_vars

\* markdownToSlack on every text of up to MaxPieces pieces
InitMarkdown ==
    /\ turns = [t \in Turns |-> NoTurn]
    /\ delivered = {}
    /\ KV = [k \in KVKeys |-> 0]
    /\ reactions = {}
    /\ topics = {}
    /\ served = {}
    /\ rendered \in {[NotRendered EXCEPT !.pieces = ps, !.markdown = Concat(ps)] :
                       ps \in PieceSeqs}
    /\ fetched = NotFetched

NextMarkdown == Transform \/ TransformAgain

SpecMarkdown == InitMarkdown /\ [][NextMarkdown]_vars

----------------------------------------------------------------------------
(* Claims *)

\* what the turn's store lookup returned, -1 before it has returned
Got(r) ==
    LET S == {i \in 1..Len(r.trace) : r.trace[i].op = "KV.get" /\ r.trace[i].res = "ok"}
    IN  IF S = {} THEN -1 ELSE r.trace[CHOOSE i \in S : TRUE].val

\* the outcome of the turn's latest call of op, "" when it has made none
Last(r, op) ==
    LET S == {i \in 1..Len(r.trace) : r.trace[i].op = op}
    IN  IF S = {} THEN "" ELSE r.trace[CHOOSE i \in S : \A j \in S : j <= i].res

\* the thread root of an event and the thread's store key, as the specification defines them
Root(r) == IF r.thread_ts # 0 THEN r.thread_ts ELSE r.ts

ThreadKey(r) == "thread:" \o r.channel \o ":" \o ToString(Root(r))

\* a plain message the Event Router has to admit once the thread has a session
PlainInThread(r) ==
    /\ r.kind = "message"
    /\ r.text # <<>>
    /\ r.subtype # "bot_message"
    /\ r.thread_ts # 0
    /\ r.thread_ts # r.ts

\* C1: a plain thread message that arrives after a turn of the thread has stored a
\* session and sent its answer, while that session is stored, is forwarded to
\* handleMessage (it is not dropped by the Event Router).
C1_PlainMessageForwarded ==
    \A t \in Turns :
        (PlainInThread(turns[t]) /\ turns[t].afterSuccess /\ turns[t].sessionAtStart # 0)
            => turns[t].pc # "skipped"

\* C2: a plain message event in a thread for which the store holds no session is
\* dropped by the Event Router: it causes no reaction, no createTopic, no sendMessage
\* and no reply.
C2_NoSessionNotForwarded ==
    \A t \in Turns :
        (turns[t].kind = "message" /\ turns[t].sessionAtStart = 0)
            => /\ turns[t].pc = "skipped"
               /\ turns[t].trace = <<>>
               /\ turns[t].posts = <<>>
               /\ turns[t].replies = <<>>

C2_Witness ==
    \E t \in Turns :
        PlainInThread(turns[t]) /\ turns[t].sessionAtStart = 0 /\ turns[t].pc = "skipped"

\* C3: turns of a thread handled one after another. A mention turn whose store lookup
\* finds no session for the thread calls createTopic exactly once and stores exactly
\* the session created, under the thread key; a mention turn whose lookup finds a
\* session calls createTopic and KV.put zero times and posts to the session found. No
\* session is created while the store holds one for the thread, whether the event
\* carries the thread root or starts the thread itself.
C3_SessionPerThread ==
    \A t \in Turns :
        LET r == turns[t]
        IN  r.kind = "app_mention" =>
                /\ Count(r, "createTopic") <= 1
                /\ r.pc = "create" => KV[ThreadKey(r)] = 0
                /\ Got(r) = 0 => (r.pc = "create" \/ Count(r, "createTopic") = 1)
                /\ Got(r) > 0 =>
                       /\ Count(r, "createTopic") = 0
                       /\ Count(r, "KV.put") = 0
                       /\ \A i \in 1..Len(r.posts) : r.posts[i].topicId = Got(r)
                       /\ KV[ThreadKey(r)] \in {0, Got(r)}
                /\ Did(r, "KV.put", "ok") =>
                       /\ Count(r, "KV.put") = 1
                       /\ Did(r, "createTopic", "ok")
                       /\ KV[ThreadKey(r)] \in {0, r.topicId}
                       /\ \A i \in 1..Len(r.posts) : r.posts[i].topicId = r.topicId

\* a reply inside the thread a first mention started reuses the session stored for it
C3_Witness ==
    \E t \in Turns :
        LET r == turns[t]
        IN  /\ r.kind = "app_mention" /\ r.thread_ts # 0 /\ r.thread_ts # r.ts
            /\ ThreadKey(r) \in served
            /\ Got(r) > 0 /\ Got(r) = KV[ThreadKey(r)]
            /\ Finished(r) /\ Answered(r)

\* C4 as claimed: once handleMessage has finished, the reaction is no longer on the
\* triggering event.
C4_ReactionGone ==
    \A t \in Turns : Finished(turns[t]) => Reaction(turns[t]) \notin reactions

\* C4 as amended: once handleMessage has finished, on any exit path, it has tried to
\* remove the reaction at least once, and the reaction is on the triggering event only
\* if the last removal call itself failed.
C4_ReactionRemovalAttempted ==
    \A t \in Turns :
        Finished(turns[t]) =>
            /\ Count(turns[t], "reactions.remove") >= 1
            /\ Last(turns[t], "reactions.remove") = "ok" => Reaction(turns[t]) \notin reactions

\* a turn that attached the reaction, failed on an exception and removed the reaction
C4_Witness ==
    \E t \in Turns :
        /\ Finished(turns[t])
        /\ Did(turns[t], "reactions.add", "ok")
        /\ turns[t].error # ""
        /\ Last(turns[t], "reactions.remove") = "ok"
        /\ Reaction(turns[t]) \notin reactions

\* the replies of the turn are all sent to the thread of the triggering event
InThreadReplies(r) == \A i \in 1..Len(r.replies) : r.replies[i].thread_ts = Root(r)

\* every reply the turn tried to send was delivered
RepliesDelivered(r) == ~Did(r, "say", "throw")

\* C5: when sendMessage returns a remote error and the replies are delivered, the turn
\* ends with no reaction attached and exactly one reply, sent to the thread and
\* carrying the remote status; no answer reply is sent.
C5_SendErrorReply ==
    \A t \in Turns :
        LET r == turns[t]
        IN  (Finished(r) /\ Did(r, "sendMessage", "error") /\ RepliesDelivered(r)) =>
                /\ Reaction(r) \notin reactions
                /\ Len(r.replies) = 1
                /\ r.replies[1].kind = "sendError"
                /\ r.replies[1].status = r.status
                /\ InThreadReplies(r)

\* C6: a failed reactions.add does not abort the turn: the session is resolved,
\* sendMessage is called, and no error reply is sent for the failed reaction.
C6_AttachFailureNotFatal ==
    \A t \in Turns :
        LET r == turns[t]
        IN  (Finished(r) /\ Did(r, "reactions.add", "throw")) =>
                /\ Got(r) >= 0
                /\ Count(r, "sendMessage") = 1
                /\ \A i \in 1..Len(r.replies) : r.replies[i].kind # "exception"

\* C7: with the replies delivered, a failed reactions.remove leaves the replies of the
\* turn as they are when the removal succeeds: one answer after a successful
\* sendMessage, one reply with the remote status after a remote error.
C7_RemoveFailureSilent ==
    \A t \in Turns :
        LET r == turns[t]
        IN  (Finished(r) /\ Did(r, "reactions.remove", "throw") /\ RepliesDelivered(r)) =>
                /\ Did(r, "sendMessage", "ok") =>
                       Len(r.replies) = 1 /\ r.replies[1].kind = "answer"
                /\ Did(r, "createTopic", "error") => r.replies = <<CreateErrorReply(r)>>
                /\ Did(r, "sendMessage", "error") => r.replies = <<SendErrorReply(r)>>

\* C8: when createTopic returns a remote error, nothing is written to the store and
\* the store holds no session for the thread (so the next lookup finds none),
\* sendMessage is not called, and at most one reply is sent, to the thread and an
\* error reply; it is exactly one when handleMessage returns.
C8_CreateErrorStopsTurn ==
    \A t \in Turns :
        LET r == turns[t]
        IN  Did(r, "createTopic", "error") =>
                /\ Count(r, "KV.put") = 0
                /\ KV[ThreadKey(r)] = 0
                /\ Count(r, "sendMessage") = 0 /\ r.posts = <<>>
                /\ Len(r.replies) <= 1
                /\ InThreadReplies(r)
                /\ \A i \in 1..Len(r.replies) : r.replies[i].kind \in {"createError", "exception"}
                /\ r.pc = "done" => Len(r.replies) = 1

C8_Witness ==
    \E t \in Turns :
        LET r == turns[t]
        IN  /\ r.pc = "done" /\ Did(r, "createTopic", "error")
            /\ r.replies = <<CreateErrorReply(r)>>
            /\ KV[ThreadKey(r)] = 0

\* the turn's store write is the step being taken
Puts(t) == Count(turns'[t], "KV.put") > Count(turns[t], "KV.put")

\* C9: last write wins and nothing cleans up. Every KV.put of a turn overwrites what
\* the store holds under the thread key with the session the turn created, and no
\* remote session is ever deleted.
C9_LastWriteWins ==
    [][/\ \A t \in Turns :
              (Puts(t) /\ Did(turns'[t], "KV.put", "ok")) =>
                  KV'[ThreadKey(turns[t])] = turns[t].topicId
       /\ topics \subseteq topics']_vars

\* two overlapping turns of a new thread both found no session, both created one and
\* both stored theirs: the store holds one, the other is referenced by no key
C9_Witness ==
    \E t, u \in Turns :
        /\ t # u
        /\ turns[t].kind = "app_mention" /\ turns[u].kind = "app_mention"
        /\ ThreadKey(turns[t]) = ThreadKey(turns[u])
        /\ Got(turns[t]) = 0 /\ Got(turns[u]) = 0
        /\ Did(turns[t], "createTopic", "ok") /\ Did(turns[u], "createTopic", "ok")
        /\ Did(turns[t], "KV.put", "ok") /\ Did(turns[u], "KV.put", "ok")
        /\ turns[t].topicId # turns[u].topicId
        /\ KV[ThreadKey(turns[u])] = turns[u].topicId
        /\ turns[t].topicId \in topics
        /\ \A k \in KVKeys : KV[k] # turns[t].topicId

\* C10 as claimed: a sendMessage made while the store holds a session for the thread
\* key targets that session.
C10_PostTargetsStored ==
    \A t \in Turns :
        \A i \in 1..Len(turns[t].posts) :
            turns[t].posts[i].stored # 0 =>
                turns[t].posts[i].topicId = turns[t].posts[i].stored

\* C10 as amended: every sendMessage of a turn targets the session the turn itself
\* read from the store or itself created and stored under the thread key; when no
\* other turn of the thread overlaps with the turn, the store holds that session, or
\* none because the entry has expired, at the time of the call.
C10_PostTargetsOwnSession ==
    \A t \in Turns :
        LET r == turns[t]
        IN  \A i \in 1..Len(r.posts) :
                /\ r.posts[i].topicId # 0
                /\ Got(r) > 0 => r.posts[i].topicId = Got(r)
                /\ Got(r) <= 0 =>
                       /\ Did(r, "createTopic", "ok") /\ Did(r, "KV.put", "ok")
                       /\ r.posts[i].topicId = r.topicId
                /\ ~r.overlapped => r.posts[i].stored \in {0, r.posts[i].topicId}

\* a turn that overlaps with no other posts to the session it found in the store
C10_Witness ==
    \E t \in Turns :
        LET r == turns[t]
        IN  /\ ~r.overlapped /\ Got(r) > 0
            /\ Len(r.posts) = 1
            /\ r.posts[1].topicId = Got(r)
            /\ r.posts[1].stored = Got(r)

\* C11: every reply of a turn (answer, createTopic error, sendMessage error,
\* exception) is addressed to the thread root: the event's thread_ts when it has one,
\* the event's own ts otherwise.
C11_RepliesToThreadRoot ==
    \A t \in Turns :
        \A i \in 1..Len(turns[t].replies) :
            turns[t].replies[i].thread_ts =
                (IF turns[t].thread_ts # 0 THEN turns[t].thread_ts ELSE turns[t].ts)

\* an event outside any thread failed on an exception: the error reply starts a thread
\* under the event
C11_Witness ==
    \E t \in Turns :
        /\ turns[t].thread_ts = 0
        /\ turns[t].replies # <<>>
        /\ turns[t].replies[1].kind = "exception"
        /\ turns[t].replies[1].thread_ts = turns[t].ts

\* the message event arrived after the session stored for its thread had expired
AfterExpiry(r) == r.kind = "message" /\ r.afterSuccess /\ r.sessionAtStart = 0

\* a session was stored for the thread of the mention, a turn answered with it, and
\* the store holds none now: the session has expired
Expired(r) == r.kind = "app_mention" /\ ThreadKey(r) \in served /\ KV[ThreadKey(r)] = 0

\* C12 as claimed: an event, mention or plain thread message, that arrives after the
\* session of its thread has expired has a new session created and stored: the plain
\* message is forwarded and, like the mention, finds no session at its lookup and
\* stores the one it creates.
C12_RecreatedOnNextEvent ==
    \A t \in Turns :
        LET r == turns[t]
        IN  /\ (AfterExpiry(r) /\ PlainInThread(r)) => r.pc # "skipped"
            /\ (r.kind = "app_mention" /\ Did(r, "KV.put", "ok")) =>
                   KV[ThreadKey(r)] \in {0, r.topicId}

\* C12 as amended: a mention whose lookup comes after the session of its thread has
\* expired finds none and goes on to createTopic; the session it creates is new and
\* is stored under the thread key by its KV.put. A plain thread message that arrives
\* after the expiry is dropped by the Event Router.
C12_RecreatedOnNextMention ==
    [][\A t \in Turns :
           LET r == turns[t]
               next == turns'[t]
           IN  /\ (r.pc = "idle" /\ AfterExpiry(next)) => next.pc = "skipped"
               /\ (r.pc = "get" /\ Expired(r) /\ Did(next, "KV.get", "ok")) =>
                      next.pc = "create"
               /\ (r.pc = "create" /\ Did(next, "createTopic", "ok")) =>
                      /\ next.pc = "put"
                      /\ next.topicId \in topics' \ topics
               /\ (r.pc = "put" /\ Did(next, "KV.put", "ok")) =>
                      KV'[ThreadKey(r)] = next.topicId]_vars

\* a mention after the expiry has stored a second session for the thread and is about
\* to post to it
C12_Witness ==
    \E t \in Turns :
        LET r == turns[t]
        IN  /\ r.kind = "app_mention" /\ r.pc = "send"
            /\ ThreadKey(r) \in served
            /\ Got(r) = 0
            /\ Did(r, "createTopic", "ok") /\ Did(r, "KV.put", "ok")
            /\ KV[ThreadKey(r)] = r.topicId
            /\ Cardinality(topics) = 2

\* C13: a turn in which an exception was raised ends with handleMessage returning
\* normally and with an exception reply delivered to the thread.
C13_ExceptionSurfaced ==
    \A t \in Turns :
        LET r == turns[t]
        IN  (Finished(r) /\ r.error # "") =>
                /\ r.pc = "done"
                /\ r.replies # <<>>
                /\ r.replies[Len(r.replies)].kind = "exception"
                /\ r.replies[Len(r.replies)].thread_ts = Root(r)

\* the reply text begins with the diagnostic lines, closed by a rule
BeginsWithDiagnostics(text) ==
    /\ Len(text) > 6
    /\ text[1] = "*DEBUG MODE ENABLED*"
    /\ \E k \in 7..Len(text) : text[k] = "---"

\* C14 as claimed: every reply of a turn whose text contains [DEBUG] begins with the
\* diagnostic lines followed by a rule.
C14_DiagnosticsOnEveryReply ==
    \A t \in Turns :
        Includes(turns[t].text, DebugTok) =>
            \A i \in 1..Len(turns[t].replies) :
                BeginsWithDiagnostics(turns[t].replies[i].text)

\* C14 as amended: in a turn whose text contains [DEBUG] the answer reply begins with
\* the diagnostic lines, followed by one rule and then the content a turn without the
\* marker sends (the transformed answer and the citations); the error replies
\* (createTopic error, sendMessage error, exception) carry no diagnostics.
C14_DiagnosticsOnAnswer ==
    \A t \in Turns :
        LET r == turns[t]
        IN  Includes(r.text, DebugTok) =>
                \A i \in 1..Len(r.replies) :
                    LET text == r.replies[i].text
                    IN  IF r.replies[i].kind = "answer"
                        THEN /\ BeginsWithDiagnostics(text)
                             /\ \E k \in 7..Len(text) :
                                    /\ text[k] = "---"
                                    /\ \A j \in 1..(k - 1) : text[j] # "---"
                                    /\ SubSeq(text, k + 1, Len(text)) =
                                           <<"markdownToSlack(answer)">>
                                               \o (IF r.sources > 0
                                                   THEN <<NL, NL, "formatSources(sources)">>
                                                   ELSE <<>>)
                        ELSE Len(text) = 1 /\ ~BeginsWithDiagnostics(text)

\* a debug turn answered with citations: diagnostics, rule, answer, citations
C14_Witness ==
    \E t \in Turns :
        LET r == turns[t]
        IN  /\ Includes(r.text, DebugTok) /\ Finished(r) /\ r.sources > 0
            /\ Len(r.replies) = 1 /\ r.replies[1].kind = "answer"
            /\ BeginsWithDiagnostics(r.replies[1].text)
            /\ r.replies[1].text[Len(r.replies[1].text)] = "formatSources(sources)"

\* C20: the key reported in the diagnostics of a turn is the key under which the turn
\* stored its session.
C20_DebugKeyIsStoreKey ==
    \A t \in Turns :
        LET r == turns[t]
        IN  (Includes(r.text, DebugTok) /\ Did(r, "KV.put", "ok")) =>
                \A i \in 1..Len(r.replies) :
                    r.replies[i].kind = "answer" =>
                        \A k \in KVKeys :
                            KV[k] = r.topicId =>
                                Includes(r.replies[i].text, "KV Key: " \o k)

\* the number of places where pat occurs in text
Occurrences(text, pat) == Cardinality({i \in 1..Len(text) : StartsAt(text, i, pat)})

\* the pieces that are one of the constructs: bold, heading, list, strikethrough,
\* fenced code, link, block quote
Constructs ==
    {"bold", "under", "heading", "dash", "star", "number", "strike", "fence", "link", "quote"}

\* the text is a sequence of constructs, one per line
OnlyConstructs(pieces) ==
    \A k \in 1..Len(pieces) :
        IF k % 2 = 1 THEN pieces[k] \in Constructs ELSE pieces[k] = "newline"

\* C15: markdownToSlack(markdownToSlack(x)) = markdownToSlack(x) for every text x made
\* of bold, heading, list, strikethrough, fenced-code, link and block-quote constructs.
C15_Idempotent ==
    (rendered.passes = 2 /\ OnlyConstructs(rendered.pieces)) =>
        rendered.again = rendered.slack

\* C16: each bold span **b** or __b__ of the input, wherever it stands, is *b* in the
\* output of markdownToSlack.
C16_BoldEverywhere ==
    LET pieces == rendered.pieces
        spans == {k \in 1..Len(pieces) : pieces[k] \in {"bold", "under"}}
    IN  (/\ rendered.passes >= 1
         /\ \A k \in 1..Len(pieces) :
                pieces[k] \in {"bold", "under", "word", "space", "newline"}) =>
            Occurrences(rendered.slack, <<"*", "b", "*">>) >= Cardinality(spans)

\* the characters of a text without markup
PlainChars == (WordChars \ {"_"}) \cup {" ", "."}

\* the text a list line gives after its marker, <<>> if the line is no list line
ItemText(line) ==
    LET j == Skip(line, 1, Digits)
    IN  IF Len(line) > 2 /\ line[1] \in {"*", "-"} /\ line[2] = " "
        THEN SubSeq(line, 3, Len(line))
        ELSE IF j > 1 /\ StartsAt(line, j, <<".", " ">>) /\ Len(line) > j + 1
        THEN SubSeq(line, j + 2, Len(line))
        ELSE <<>>

\* the lines of text that are equal to line
Same(text, line) == {k \in 1..Len(Lines(text)) : Lines(text)[k] = line}

\* C17: every line of the input that starts with "- ", "* " or "N. " followed by
\* plain text is, in the output of markdownToSlack, a line made of the bullet glyph,
\* a space and that text: as many such lines come out as went in, on whatever line
\* of the input they stand.
C17_BulletOnEveryLine ==
    rendered.passes >= 1 =>
        \A k \in 1..Len(Lines(rendered.markdown)) :
            LET item == ItemText(Lines(rendered.markdown)[k])
                items == {n \in 1..Len(Lines(rendered.markdown)) :
                              ItemText(Lines(rendered.markdown)[n]) = item}
            IN  (item # <<>> /\ \A n \in 1..Len(item) : item[n] \in PlainChars) =>
                    Cardinality(Same(rendered.slack, <<Bullet, " ">> \o item))
                        >= Cardinality(items)

\* a dash item on the first line and a star item on the second
C17_Witness ==
    /\ rendered.passes = 1
    /\ rendered.markdown = <<"-", " ", "i", NL, "*", " ", "i">>
    /\ rendered.slack = <<Bullet, " ", "i", NL, Bullet, " ", "i">>

\* the event caused nothing: no reaction, no lookup, no remote call, no reply
Dropped(r) == r.pc = "skipped" /\ r.trace = <<>> /\ r.posts = <<>> /\ r.replies = <<>>

C21_CleanedTextFree ==
    \A t \in Turns :
        \A i \in 1..Len(turns[t].posts) :
            /\ ~Includes(turns[t].posts[i].message, MentionTok)
            /\ ~Includes(turns[t].posts[i].message, DebugTok)

\* the operations of the calls the turn has made, in order
Ops(r) == [i \in 1..Len(r.trace) |-> r.trace[i].op]

\* every call of op a in the trace comes before every call of op b
Precedes(r, a, b) ==
    \A i, j \in 1..Len(r.trace) : (r.trace[i].op = a /\ r.trace[j].op = b) => i < j

\* C22: the calls of a turn come in a fixed order. reactions.add is the first call;
\* KV.get comes before createTopic, createTopic before KV.put, KV.put before
\* sendMessage; after a remote error of createTopic or sendMessage the next call
\* removes the reaction, the one after it sends the error reply, and once that reply
\* is sent no call follows; after a successful sendMessage the next call sends the
\* answer and the one after it removes the reaction.
C22_FixedOrder ==
    \A t \in Turns :
        LET r == turns[t]
            n == Len(r.trace)
        IN  /\ n >= 1 => r.trace[1].op = "reactions.add"
            /\ Precedes(r, "reactions.add", "KV.get")
            /\ Precedes(r, "KV.get", "createTopic")
            /\ Precedes(r, "createTopic", "KV.put")
            /\ Precedes(r, "KV.put", "sendMessage")
            /\ Precedes(r, "KV.get", "sendMessage")
            /\ \A i \in 1..n :
                   r.trace[i].res = "error" =>
                       /\ r.trace[i].op \in {"createTopic", "sendMessage"}
                       /\ i < n => r.trace[i + 1].op = "reactions.remove"
                       /\ (i + 1 < n /\ r.trace[i + 1].res = "ok") =>
                              /\ r.trace[i + 2].op = "say"
                              /\ r.trace[i + 2].res = "ok" =>
                                     (n = i + 2 /\ r.pc = "done" /\ Len(r.replies) = 1)
            /\ \A i \in 1..n :
                   (r.trace[i].op = "sendMessage" /\ r.trace[i].res = "ok") =>
                       /\ i < n => r.trace[i + 1].op = "say"
                       /\ (i + 1 < n /\ r.trace[i + 1].res = "ok") =>
                              r.trace[i + 2].op = "reactions.remove"

\* a turn that created a session and answered: all seven calls, in order
C22_Witness ==
    \E t \in Turns :
        /\ turns[t].pc = "done"
        /\ Ops(turns[t]) = <<"reactions.add", "KV.get", "createTopic", "KV.put",
                             "sendMessage", "say", "reactions.remove">>
        /\ \A i \in 1..7 : turns[t].trace[i].res = "ok"

\* C23: a turn calls createTopic at most once and sendMessage at most once, whatever
\* the calls return; and it calls createTopic only after its store lookup has returned
\* no session.
C23_SingleShot ==
    \A t \in Turns :
        LET r == turns[t]
        IN  /\ Count(r, "createTopic") <= 1
            /\ Count(r, "sendMessage") <= 1
            /\ Len(r.posts) = Count(r, "sendMessage")
            /\ Count(r, "KV.get") <= 1
            /\ (r.pc = "create" \/ Count(r, "createTopic") = 1) => Got(r) = 0

\* a turn whose createTopic succeeded and whose sendMessage returned an error: it has
\* ended with one call of each
C23_Witness ==
    \E t \in Turns :
        LET r == turns[t]
        IN  /\ r.pc = "done"
            /\ Did(r, "createTopic", "ok") /\ Did(r, "sendMessage", "error")
            /\ Count(r, "createTopic") = 1 /\ Count(r, "sendMessage") = 1

\* the turn is on the sendMessage error path, or has ended on it
PostFailed(r) == Did(r, "sendMessage", "error")

\* C24: a sendMessage error leaves the store as it is. At the failing call the store
\* holds, under the thread key, the session the turn found or created; no step the turn
\* takes from then on changes the store; and a lookup that finds a session stored for
\* its thread goes on to sendMessage with that session, without createTopic.
C24_PostFailureKeepsSession ==
    [][\A t \in Turns :
           LET r == turns[t]
               next == turns'[t]
           IN  /\ (PostFailed(next) /\ next # r) => KV' = KV
               /\ (~PostFailed(r) /\ PostFailed(next)) =>
                      (r.topicId # 0 /\ KV'[ThreadKey(r)] \in {0, r.topicId})
               /\ (r.pc = "get" /\ next.pc # "get" /\ KV[ThreadKey(r)] # 0) =>
                      /\ next.pc = "send"
                      /\ next.topicId = KV[ThreadKey(r)]
                      /\ Count(next, "createTopic") = 0]_vars

\* the sendMessage of the thread's first turn failed after it had stored session 1; the
\* next mention in the thread has found that session and posted to it, and no other
\* session was created
C24_Witness ==
    \E t \in Turns :
        LET r == turns[t]
        IN  /\ r.kind = "app_mention" /\ r.thread_ts # 0 /\ r.thread_ts # r.ts
            /\ ThreadKey(r) \notin served
            /\ Got(r) = 1 /\ topics = {1}
            /\ Count(r, "createTopic") = 0
            /\ Len(r.posts) = 1 /\ r.posts[1].topicId = 1 /\ r.posts[1].stored = 1
            /\ Answered(r)

\* the messages of the thread other than the mention itself
Others(thread, ts) == SelectSeq(thread, LAMBDA msg : msg.ts # ts)

\* the messages from..to written out one after another, each behind the label of its
\* author
RECURSIVE Labelled(_, _, _)
Labelled(messages, from, to) ==
    IF from > to THEN <<>>
    ELSE IF from = to
    THEN <<IF messages[from].bot_id THEN "Assistant:" ELSE "User:">> \o messages[from].text
    ELSE LET mid == (from + to) \div 2
         IN  Labelled(messages, from, mid) \o Labelled(messages, mid + 1, to)

\* C25: the text handed to the turn of a mention. When the mention stands in a thread
\* that has at least one other message and the history was retrieved, it is the
\* preamble, every other message of the thread in order under its label, "Current
\* message:" and the raw text; in every other case (no thread, no other message,
\* retrieval failed) it is the raw text. The turn runs in every case.
C25_HistoryFolded ==
    fetched.pc = "handled" =>
        LET payload == fetched.payload
            others == Others(fetched.thread, payload.ts)
            expected == IF payload.thread_ts # 0 /\ ~fetched.threw /\ others # <<>>
                        THEN <<HistoryTok>> \o Labelled(others, 1, Len(others)) \o <<CurrentTok>>
                                 \o payload.text
                        ELSE payload.text
        IN  /\ fetched.messageText = expected
            /\ \A t \in Turns :
                   (turns[t].kind = "app_mention" /\ turns[t].ts = payload.ts) =>
                       (turns[t].text = expected /\ turns[t].pc # "skipped")

\* C26: the layout of the success reply. Its text is the transformed answer, followed,
\* only when the answer came with sources, by two newlines and the citation list; when
\* the text of the turn contains [DEBUG], the diagnostics and a rule stand in front of
\* all that, and only then. Without sources and without the marker the reply is the
\* transformed answer alone.
C26_ReplyLayout ==
    \A t \in Turns :
        LET r == turns[t]
            body == <<"markdownToSlack(answer)">>
                        \o (IF r.sources > 0 THEN <<NL, NL, "formatSources(sources)">>
                            ELSE <<>>)
        IN  \A i \in 1..Len(r.replies) :
                LET text == r.replies[i].text
                IN  r.replies[i].kind = "answer" =>
                        IF Includes(r.text, DebugTok)
                        THEN /\ text[1] = "*DEBUG MODE ENABLED*"
                             /\ \E k \in 2..Len(text) :
                                    /\ text[k] = "---"
                                    /\ SubSeq(text, k + 1, Len(text)) = body
                                    /\ \A j \in 1..(k - 1) :
                                           text[j] \notin {"---", NL, "markdownToSlack(answer)",
                                                           "formatSources(sources)"}
                        ELSE text = body

\* an answer with sources to a mention without the marker: answer, two newlines,
\* citations
C26_Witness ==
    \E t \in Turns :
        LET r == turns[t]
        IN  /\ ~Includes(r.text, DebugTok) /\ r.sources > 0
            /\ Len(r.replies) = 1 /\ r.replies[1].kind = "answer"
            /\ r.replies[1].text = <<"markdownToSlack(answer)", NL, NL, "formatSources(sources)">>

\* C27: when every external call eventually returns or throws, every turn that has
\* started eventually ends, handleMessage returning or throwing; and once it has ended
\* nothing more is done for it: it makes no call and sends no reply, and what it left
\* in the store, on the platform and at the remote assistant stays as it is until
\* another event or an expiry changes it.
C27_TurnTerminates ==
    /\ \A t \in Turns : Active(turns[t]) ~> Finished(turns[t])
    /\ [][\A t \in Turns :
              Over(turns[t]) =>
                  /\ turns'[t] \in {turns[t], [NoTurn EXCEPT !.pc = "gone"]}
                  /\ turns'[t] # turns[t] =>
                         UNCHANGED <<KV, reactions, topics, delivered>>]_vars

\* a turn ended by the catch clause after its sendMessage threw
C27_Witness ==
    \E t \in Turns :
        /\ Finished(turns[t])
        /\ Did(turns[t], "sendMessage", "throw")
        /\ Len(turns[t].trace) >= 6

\* C28: a turn whose lookup found a session stored for its thread key writes nothing
\* to the store: it makes no KV.put call, so the expiry of the entry is not renewed,
\* and every step it takes leaves the store as it is.
C28_NoWriteOnHit ==
    [][\A t \in Turns :
           LET r == turns[t]
               next == turns'[t]
           IN  (Got(next) > 0 /\ next # r /\ next.pc # "gone") =>
                   /\ KV' = KV
                   /\ Count(next, "KV.put") = 0
                   /\ next.topicId = Got(next)]_vars

\* a mention in a thread whose session is stored has been answered with that session
\* and has made no KV.put
C28_Witness ==
    \E t \in Turns :
        LET r == turns[t]
        IN  /\ r.pc = "done" /\ Answered(r)
            /\ Got(r) > 0 /\ KV[ThreadKey(r)] = Got(r)
            /\ Ops(r) = <<"reactions.add", "KV.get", "sendMessage", "say", "reactions.remove">>

\* C29: the store changes only under the key of the acting turn. A step of the
\* handlers (an arrival with the Event Router's admission check, or a step of a turn)
\* changes at most the entry under the thread key of the turn taking it, and only by
\* that turn's KV.put, which stores the turn's own session; no handler step deletes an
\* entry. No event changes the entry of another thread.
C29_OwnKeyOnly ==
    [][turns' # turns =>
           \A key \in KVKeys :
               KV'[key] # KV[key] =>
                   \E t \in Turns :
                       /\ Puts(t)
                       /\ key = ThreadKey(turns[t])
                       /\ KV'[key] = turns[t].topicId
                       /\ KV'[key] # 0]_vars

\* two threads each with its own session in the store
C29_Witness ==
    \E t \in Turns :
        LET r == turns[t]
        IN  /\ Did(r, "KV.put", "ok")
            /\ KV[ThreadKey(r)] = r.topicId
            /\ \E key \in KVKeys :
                   key # ThreadKey(r) /\ KV[key] # 0 /\ KV[key] # r.topicId

\* the two records are the handlers of the two events of one message
SameMessage(r, q) ==
    /\ r.kind = "app_mention" /\ q.kind = "message"
    /\ r.channel = q.channel /\ r.ts = q.ts /\ r.thread_ts = q.thread_ts

C31_HeadingOnEveryLine ==
    rendered.passes >= 1 =>
        Cardinality(Same(rendered.slack, <<"*", "h", "*">>))
            >= Cardinality(Same(rendered.markdown, <<"#", " ", "h">>))

\* the lines of a text that begin with the span
Beginning(text, span) ==
    {k \in 1..Len(Lines(text)) : StartsAt(Lines(text)[k], 1, span)}

\* C32: a single-asterisk emphasis span *i* that begins a line of the input, the first
\* or a later one, is left unchanged by markdownToSlack: in a text of emphasis spans and
\* plain text as many lines begin with *i* in the output as in the input.
C32_EmphasisAtLineStartKept ==
    (/\ rendered.passes >= 1
     /\ \A k \in 1..Len(rendered.pieces) :
            rendered.pieces[k] \in {"emph", "word", "space", "newline"}) =>
        Cardinality(Beginning(rendered.slack, <<"*", "i", "*">>))
            >= Cardinality(Beginning(rendered.markdown, <<"*", "i", "*">>))

\* the lines a fenced code block holds between its fences
Body ==
    [fence |-> <<"c", NL>>,
     shell |-> <<"#", " ", "c", NL>>]

\* C33: of a fenced code block markdownToSlack removes the language tag only: for every
\* block that opens a line of the input the output holds the opening fence, the whole
\* body of the block and the closing fence.
C33_BlockBodyKept ==
    rendered.passes >= 1 =>
        \A k \in 1..Len(rendered.pieces) :
            (/\ rendered.pieces[k] \in DOMAIN Body
             /\ (k = 1 \/ rendered.pieces[k - 1] = "newline")) =>
                Occurrences(rendered.slack,
                            Fence \o Body[rendered.pieces[k]] \o Fence) >= 1

\* the text that reaches the last rule of markdownToSlack
BeforeNewlines(markdown) ==
    BlockQuotes(Links(InlineCode(CodeBlocks(Strike(Italic(Lists(Headers(Bold(
        markdown)))))))))

\* the text cut into its maximal runs of newlines and of other characters, from i on
RECURSIVE Runs(_, _)
Runs(text, i) ==
    IF i > Len(text) THEN <<>>
    ELSE LET newline == (text[i] = NL)
             j == CHOOSE j \in (i + 1)..(Len(text) + 1) :
                    /\ \A m \in i..(j - 1) : (text[m] = NL) = newline
                    /\ j = Len(text) + 1 \/ (text[j] = NL) # newline
         IN  <<SubSeq(text, i, j - 1)>> \o Runs(text, j)

\* C34: the output of markdownToSlack holds no three consecutive newlines, and it is
\* the text that reaches the last rule with every run of three or more newlines
\* replaced by exactly two and every other run unchanged.
C34_BlankLinesCollapsed ==
    rendered.passes = 1 =>
        LET before == Runs(BeforeNewlines(rendered.markdown), 1)
            after == Runs(rendered.slack, 1)
        IN  /\ Occurrences(rendered.slack, <<NL, NL, NL>>) = 0
            /\ Len(after) = Len(before)
            /\ \A k \in 1..Len(before) :
                   after[k] = IF before[k][1] = NL /\ Len(before[k]) >= 3
                              THEN <<NL, NL>>
                              ELSE before[k]

\* a text with three newlines in a row reached the last rule and was transformed
C34_Witness ==
    /\ rendered.passes = 1
    /\ Occurrences(BeforeNewlines(rendered.markdown), <<NL, NL, NL>>) >= 1

====
